---------------------------- MODULE Spec2Model ----------------------------
(***************************************************************************)
(* Model of src/models/models.py: the three architecture builders          *)
(* dcnn_binary, dcnn_multiclass and dcnn_multiclass_resnet.                *)
(*                                                                         *)
(* One behaviour is one call of one builder.  The state is the builder's   *)
(* local variables (hyperparameters, loop counter i, the tensors X and     *)
(* X_res of the functional builder), the layers created so far, the        *)
(* compile record and the log of externally visible events.                *)
(*                                                                         *)
(* Encoding:                                                               *)
(*   a string            a sequence of one-character strings               *)
(*   a value eval gives  a record, see "Python values" below               *)
(*   output_bias         None is <<>>, the number b is <<b>>               *)
(*   a size Keras keeps  the pair <<a, b>> of the normalised 2-tuple       *)
(*   a tensor shape      <<h, w, c>>, or <<n>> once flattened; <<>> while  *)
(*                       a Sequential model has no input shape yet         *)
(***************************************************************************)
EXTENDS Integers, Sequences, FiniteSets

VARIABLES pc, builder, args, hp, i, layers, X, X_res, built, compiled, events

vars == <<pc, builder, args, hp, i, layers, X, X_res, built, compiled, events>>

(***************************************************************************)
(* Bounds of the explored inputs.                                          *)
(***************************************************************************)
MaxBlocks == 3
MaxBase == 3
MaxClasses == 3
MaxStride == 2
MaxDim == 5
MaxMagnitude == 1000000
MaxItems == 64

None == <<>>

(***************************************************************************)
(* Python arithmetic used by the builders.                                 *)
(***************************************************************************)
RECURSIVE Pow(_, _)
Pow(b, e) == IF e = 0 THEN 1 ELSE b * Pow(b, e - 1)

CeilDiv(a, b) == (a + b - 1) \div b

(***************************************************************************)
(* Python values.  Every value is a record of one shape:                   *)
(*   int n             kind "int",   num = n                               *)
(*   float             kind "float", the double nearest to num / den       *)
(*   tuple, list       kind "tuple" / "list", items = the elements         *)
(*   Ellipsis          kind "ellipsis"                                     *)
(* and two outcomes that are no value:                                     *)
(*   Raises            the evaluation raises an exception                  *)
(*   Unmodelled        the text is outside the expressions modelled here   *)
(***************************************************************************)
PyValue(kind, num, den, items) ==
    [kind |-> kind, num |-> num, den |-> den, items |-> items]

PyInt(n) == PyValue("int", n, 1, <<>>)

PyTuple(items) == PyValue("tuple", 0, 1, items)

PyList(items) == PyValue("list", 0, 1, items)

PyEllipsis == PyValue("ellipsis", 0, 1, <<>>)

PyNone == PyValue("None", 0, 1, <<>>)

Raises == PyValue("raises", 0, 1, <<>>)

Unmodelled == PyValue("unmodelled", 0, 1, <<>>)

IsOutcome(v) == v.kind \in {"raises", "unmodelled"}

IsNumeric(v) == v.kind \in {"int", "float"}

IsSeq(v) == v.kind \in {"tuple", "list"}

Abs(n) == IF n < 0 THEN -n ELSE n

RECURSIVE Gcd(_, _)
Gcd(a, b) == IF b = 0 THEN a ELSE Gcd(b, a % b)

\* The float num / den, in lowest terms with a positive denominator.
PyFloat(num, den) ==
    LET g == Gcd(Abs(num), Abs(den))
        s == IF den < 0 THEN -1 ELSE 1
    IN  PyValue("float", s * (num \div g), Abs(den) \div g, <<>>)

RECURSIVE IsPow2(_)
IsPow2(n) == IF n = 1 THEN TRUE
             ELSE IF n < 1 \/ n % 2 # 0 THEN FALSE
             ELSE IsPow2(n \div 2)

\* A number a double holds exactly: the operands for which float arithmetic
\* yields the double nearest to the exact result.
IsExact(v) == v.kind = "int" \/ IsPow2(v.den)

(***************************************************************************)
(* The model computes with numbers up to MaxMagnitude and sequences up to  *)
(* MaxItems elements; an expression that needs more is Unmodelled.         *)
(***************************************************************************)
Fits(n) == Abs(n) <= MaxMagnitude

MulFits(a, b) == a = 0 \/ Abs(b) <= MaxMagnitude \div Abs(a)

\* b ** e fits: the products are tried from the bottom, so that the test
\* stops at the first one that is too large.
RECURSIVE PowFitsFrom(_, _, _)
PowFitsFrom(b, acc, e) ==
    e = 0 \/ (MulFits(b, acc) /\ PowFitsFrom(b, b * acc, e - 1))

PowFits(b, e) == Abs(b) <= 1 \/ PowFitsFrom(b, 1, e)

\* b ** e for e >= 0, without unfolding the trivial bases.
PyPow(b, e) ==
    IF e = 0 THEN 1
    ELSE IF b \in {0, 1} THEN b
    ELSE IF b = -1 THEN (IF e % 2 = 0 THEN 1 ELSE -1)
    ELSE Pow(b, e)

\* Python's // on integers rounds towards minus infinity.
FloorDiv(a, b) == IF b > 0 THEN a \div b ELSE (-a) \div (-b)

(***************************************************************************)
(* Python's arithmetic on the values above.                                *)
(***************************************************************************)
RatPow(v, e) ==
    IF PowFits(v.num, e) /\ PowFits(v.den, e)
    THEN PyFloat(PyPow(v.num, e), PyPow(v.den, e))
    ELSE Unmodelled

NumPow(a, b) ==
    IF a.kind = "int" /\ b.kind = "int" /\ b.num >= 0
    THEN IF PowFits(a.num, b.num) THEN PyInt(PyPow(a.num, b.num)) ELSE Unmodelled
    ELSE IF b.den # 1 THEN Unmodelled
    ELSE IF b.num < 0 /\ a.num = 0 THEN Raises
    ELSE IF ~IsExact(a) THEN Unmodelled
    ELSE IF b.num >= 0 THEN RatPow(a, b.num)
    ELSE IF IsPow2(Abs(a.num)) THEN RatPow(PyFloat(a.den, a.num), -b.num)
    ELSE Unmodelled

Bounded(v) == IF Fits(v.num) /\ Fits(v.den) THEN v ELSE Unmodelled

NumOp(op, a, b) ==
    IF op = "**" THEN NumPow(a, b)
    ELSE IF op \in {"/", "//", "%"} /\ b.num = 0 THEN Raises
    ELSE IF ~(/\ MulFits(a.num, b.num) /\ MulFits(a.num, b.den)
              /\ MulFits(a.den, b.num) /\ MulFits(a.den, b.den)) THEN Unmodelled
    ELSE IF a.kind = "int" /\ b.kind = "int" /\ op # "/"
    THEN Bounded(
         CASE op = "+" -> PyInt(a.num + b.num)
           [] op = "-" -> PyInt(a.num - b.num)
           [] op = "*" -> PyInt(a.num * b.num)
           [] op = "//" -> PyInt(FloorDiv(a.num, b.num))
           [] op = "%" -> PyInt(a.num - b.num * FloorDiv(a.num, b.num)))
    ELSE IF ~(IsExact(a) /\ IsExact(b)) THEN Unmodelled
    ELSE LET q == FloorDiv(a.num * b.den, a.den * b.num)
         IN  Bounded(
             CASE op = "+" -> PyFloat(a.num * b.den + b.num * a.den, a.den * b.den)
               [] op = "-" -> PyFloat(a.num * b.den - b.num * a.den, a.den * b.den)
               [] op = "*" -> PyFloat(a.num * b.num, a.den * b.den)
               [] op = "/" -> PyFloat(a.num * b.den, a.den * b.num)
               [] op = "//" -> PyFloat(q, 1)
               [] op = "%" -> PyFloat(a.num * b.den - q * (b.num * a.den), a.den * b.den))

RECURSIVE RepeatItems(_, _)
RepeatItems(items, n) == IF n <= 0 THEN <<>> ELSE items \o RepeatItems(items, n - 1)

Repetition(kind, items, n) ==
    IF n <= 0 \/ items = <<>> THEN PyValue(kind, 0, 1, <<>>)
    ELSE IF n > MaxItems \div Len(items) THEN Unmodelled
    ELSE PyValue(kind, 0, 1, RepeatItems(items, n))

BinOp(op, a, b) ==
    IF IsNumeric(a) /\ IsNumeric(b) THEN NumOp(op, a, b)
    ELSE IF op = "+" /\ IsSeq(a) /\ a.kind = b.kind
         THEN PyValue(a.kind, 0, 1, a.items \o b.items)
    ELSE IF op = "*" /\ IsSeq(a) /\ b.kind = "int"
         THEN Repetition(a.kind, a.items, b.num)
    ELSE IF op = "*" /\ a.kind = "int" /\ IsSeq(b)
         THEN Repetition(b.kind, b.items, a.num)
    ELSE Raises

UnaryOp(op, a) ==
    IF ~IsNumeric(a) THEN Raises
    ELSE IF op = "-" THEN [a EXCEPT !.num = -a.num]
    ELSE a

Subscript(v, idx) ==
    IF ~(IsSeq(v) /\ idx.kind = "int") THEN Raises
    ELSE LET k == IF idx.num < 0 THEN idx.num + Len(v.items) ELSE idx.num
         IN  IF k >= 0 /\ k < Len(v.items) THEN v.items[k + 1] ELSE Raises

(***************************************************************************)
(* Tokens of an expression.  A text with a character outside Alphabet or   *)
(* with a name in it is Unmodelled.                                        *)
(***************************************************************************)
DecDigits == <<"0", "1", "2", "3", "4", "5", "6", "7", "8", "9">>

LowerHex == <<"a", "b", "c", "d", "e", "f">>

UpperHex == <<"A", "B", "C", "D", "E", "F">>

Range(f) == {f[k] : k \in DOMAIN f}

Dec == Range(DecDigits)

Hex == Dec \cup Range(LowerHex) \cup Range(UpperHex)

Oct == {"0", "1", "2", "3", "4", "5", "6", "7"}

Bin == {"0", "1"}

Blanks == {" ", "\t"}

Punctuation == {"(", ")", "[", "]", ",", "+", "-", "*", "/", "%", "."}

NameStart == (Hex \ Dec) \cup {"x", "X", "o", "O", "_"}

Alphabet == Dec \cup Blanks \cup Punctuation \cup NameStart

IndexIn(f, ch) == CHOOSE k \in DOMAIN f : f[k] = ch

DigitVal(ch) ==
    IF ch \in Dec THEN IndexIn(DecDigits, ch) - 1
    ELSE IF ch \in Range(LowerHex) THEN IndexIn(LowerHex, ch) + 9
    ELSE IndexIn(UpperHex, ch) + 9

At(s, p) == IF p >= 1 /\ p <= Len(s) THEN s[p] ELSE ""

\* The last index of the digit run (digit | "_" digit)* that starts at p.
RECURSIVE ScanRun(_, _, _)
ScanRun(s, p, D) ==
    IF At(s, p + 1) \in D THEN ScanRun(s, p + 1, D)
    ELSE IF At(s, p + 1) = "_" /\ At(s, p + 2) \in D THEN ScanRun(s, p + 2, D)
    ELSE p

\* The value of the digits s[a..b] in the given base, underscores skipped.
RECURSIVE NumVal(_, _, _, _)
NumVal(s, a, b, base) ==
    IF b < a THEN 0
    ELSE IF s[b] = "_" THEN NumVal(s, a, b - 1, base)
    ELSE base * NumVal(s, a, b - 1, base) + DigitVal(s[b])

RECURSIVE CountDigits(_, _, _)
CountDigits(s, a, b) ==
    IF b < a THEN 0
    ELSE (IF s[b] = "_" THEN 0 ELSE 1) + CountDigits(s, a, b - 1)

Token(t, v, e, st) == [t |-> t, v |-> v, e |-> e, st |-> st]

TooLong(e) == Token("num", Unmodelled, e, "unmodelled")

PrefixedInt(s, first, e, base) ==
    IF PowFits(base, CountDigits(s, first, e))
    THEN Token("num", PyInt(NumVal(s, first, e, base)), e, "ok")
    ELSE TooLong(e)

\* A prefixed literal: its digits start after "0x" or after "0x_".
PrefixedLiteral(s, first, D, base) == PrefixedInt(s, first, ScanRun(s, first, D), base)

AfterPrefix(s, p) == IF At(s, p + 2) = "_" THEN p + 3 ELSE p + 2

HasPrefix(s, p, letters, D) ==
    /\ At(s, p) = "0"
    /\ At(s, p + 1) \in letters
    /\ At(s, AfterPrefix(s, p)) \in D

(***************************************************************************)
(* A decimal literal at p: the integer part is s[p..q] (empty when q < p), *)
(* the fraction ends at f (f = q when there is no point), the exponent     *)
(* ends at e (e = f when there is none).                                   *)
(***************************************************************************)
FractionEnd(s, q) ==
    IF At(s, q + 1) # "." THEN q
    ELSE IF At(s, q + 2) \in Dec THEN ScanRun(s, q + 2, Dec)
    ELSE q + 1

ExponentFirst(s, f) == IF At(s, f + 2) \in {"+", "-"} THEN f + 3 ELSE f + 2

ExponentEnd(s, f) ==
    IF At(s, f + 1) \in {"e", "E"} /\ At(s, ExponentFirst(s, f)) \in Dec
    THEN ScanRun(s, ExponentFirst(s, f), Dec)
    ELSE f

ExponentVal(s, f, e) ==
    IF e = f THEN 0
    ELSE (IF At(s, f + 2) = "-" THEN -1 ELSE 1) * NumVal(s, ExponentFirst(s, f), e, 10)

\* The number mant / 10^scale.
Scaled(mant, scale, e) ==
    IF ~PowFits(10, Abs(scale)) THEN TooLong(e)
    ELSE IF scale >= 0 THEN Token("num", PyFloat(mant, Pow(10, scale)), e, "ok")
    ELSE IF MulFits(mant, Pow(10, -scale))
         THEN Token("num", PyFloat(mant * Pow(10, -scale), 1), e, "ok")
    ELSE TooLong(e)

\* An integer literal: a nonzero one must not start with "0".
IntLiteral(n, leadingZero, e) ==
    IF leadingZero /\ n # 0 THEN Token("num", Raises, e, "raises")
    ELSE Token("num", PyInt(n), e, "ok")

DecimalNumber(s, p, q, f, e) ==
    IF \/ ~PowFits(10, CountDigits(s, p, q) + CountDigits(s, q + 2, f))
       \/ ~PowFits(10, CountDigits(s, f + 2, e))
    THEN TooLong(e)
    ELSE IF e = q THEN IntLiteral(NumVal(s, p, q, 10), At(s, p) = "0", e)
    ELSE Scaled(NumVal(s, p, q, 10) * Pow(10, CountDigits(s, q + 2, f))
                    + NumVal(s, q + 2, f, 10),
                CountDigits(s, q + 2, f) - ExponentVal(s, f, e), e)

DecimalExponent(s, p, q, f) == DecimalNumber(s, p, q, f, ExponentEnd(s, f))

DecimalLiteral(s, p, q) == DecimalExponent(s, p, q, FractionEnd(s, q))

NextToken(s, p) ==
    IF HasPrefix(s, p, {"x", "X"}, Hex) THEN PrefixedLiteral(s, AfterPrefix(s, p), Hex, 16)
    ELSE IF HasPrefix(s, p, {"o", "O"}, Oct) THEN PrefixedLiteral(s, AfterPrefix(s, p), Oct, 8)
    ELSE IF HasPrefix(s, p, {"b", "B"}, Bin) THEN PrefixedLiteral(s, AfterPrefix(s, p), Bin, 2)
    ELSE IF s[p] \in Dec \/ (s[p] = "." /\ At(s, p + 1) \in Dec)
         THEN DecimalLiteral(s, p, IF s[p] \in Dec THEN ScanRun(s, p, Dec) ELSE p - 1)
    ELSE IF s[p] = "." /\ At(s, p + 1) = "." /\ At(s, p + 2) = "."
         THEN Token("...", PyEllipsis, p + 2, "ok")
    ELSE IF s[p] = "*" /\ At(s, p + 1) = "*" THEN Token("**", PyNone, p + 1, "ok")
    ELSE IF s[p] = "/" /\ At(s, p + 1) = "/" THEN Token("//", PyNone, p + 1, "ok")
    ELSE IF s[p] \in Punctuation THEN Token(s[p], PyNone, p, "ok")
    ELSE Token("name", PyNone, p, "unmodelled")

Worse(a, b) ==
    IF "unmodelled" \in {a, b} THEN "unmodelled"
    ELSE IF "raises" \in {a, b} THEN "raises"
    ELSE "ok"

Scanned(st, ts) == [st |-> st, ts |-> ts]

\* The tokens of s from position p on, after the tokens ts read before p.
RECURSIVE Tokenize(_, _, _)
RECURSIVE ScanToken(_, _, _)
Tokenize(s, p, got) ==
    IF p > Len(s) THEN got
    ELSE IF s[p] \in Blanks THEN Tokenize(s, p + 1, got)
    ELSE ScanToken(s, NextToken(s, p), got)

ScanToken(s, t, got) ==
    Tokenize(s, t.e + 1, Scanned(Worse(got.st, t.st), Append(got.ts, t)))

(***************************************************************************)
(* The expression grammar over those tokens: tuples and lists (with        *)
(* starred elements), parentheses, subscripts, unary + and -, the binary   *)
(* operators + - * / // % **.  A call or an attribute reference of one of  *)
(* these values raises, as does every text the grammar rejects.            *)
(*                                                                         *)
(* Parse(rule, ts, p, x) applies one rule of the grammar to the tokens ts  *)
(* from position p on; x is what the rule has read before p: the elements  *)
(* of a display for "items", the left operand for "trailers", "termRest"   *)
(* and "sumRest" (the outcome of an operation that failed ends the rule).  *)
(***************************************************************************)
Tok(ts, p) == IF p <= Len(ts) THEN ts[p].t ELSE "end"

Parsed(st, v, p) == [st |-> st, v |-> v, p |-> p]

Lift(v, p) == Parsed(IF IsOutcome(v) THEN v.kind ELSE "ok", v, p)

Stop(p) == Parsed("raises", Raises, p)

ItemsParsed(st, items, p, commas, star) ==
    [st |-> st, items |-> items, p |-> p, commas |-> commas, star |-> star]

Seen(items, commas, star) == [items |-> items, commas |-> commas, star |-> star]

NoItems == Seen(<<>>, 0, FALSE)

RECURSIVE Parse(_, _, _, _)
Parse(rule, ts, p, x) ==
    CASE rule = "items" ->
            LET starred == Tok(ts, p) = "*"
                r == Parse("sum", ts, IF starred THEN p + 1 ELSE p, PyNone)
                more == IF starred THEN r.v.items ELSE <<r.v>>
                closes == Tok(ts, r.p + 1) \in {")", "]", "end"}
            IN  IF r.st # "ok" THEN ItemsParsed(r.st, <<>>, r.p, x.commas, x.star)
                ELSE IF starred /\ ~IsSeq(r.v)
                     THEN ItemsParsed("raises", <<>>, r.p, x.commas, x.star)
                ELSE IF Tok(ts, r.p) # ","
                     THEN ItemsParsed("ok", x.items \o more, r.p, x.commas,
                                      x.star \/ starred)
                ELSE IF closes
                     THEN ItemsParsed("ok", x.items \o more, r.p + 1, x.commas + 1,
                                      x.star \/ starred)
                ELSE Parse("items", ts, r.p + 1,
                           Seen(x.items \o more, x.commas + 1, x.star \/ starred))
      [] rule = "atom" ->
            LET t == Tok(ts, p)
                r == Parse("items", ts, p + 1, NoItems)
            IN  IF t \in {"num", "..."} THEN Parsed("ok", ts[p].v, p + 1)
                ELSE IF t = "(" /\ Tok(ts, p + 1) = ")"
                     THEN Parsed("ok", PyTuple(<<>>), p + 2)
                ELSE IF t = "[" /\ Tok(ts, p + 1) = "]"
                     THEN Parsed("ok", PyList(<<>>), p + 2)
                ELSE IF t = "("
                     THEN IF r.st # "ok" THEN Parsed(r.st, Raises, r.p)
                          ELSE IF Tok(ts, r.p) # ")" THEN Stop(r.p)
                          ELSE IF r.commas > 0 THEN Parsed("ok", PyTuple(r.items), r.p + 1)
                          ELSE IF r.star THEN Stop(r.p)
                          ELSE Parsed("ok", r.items[1], r.p + 1)
                ELSE IF t = "["
                     THEN IF r.st # "ok" THEN Parsed(r.st, Raises, r.p)
                          ELSE IF Tok(ts, r.p) # "]" THEN Stop(r.p)
                          ELSE Parsed("ok", PyList(r.items), r.p + 1)
                ELSE Stop(p)
      [] rule = "trailers" ->
            LET t == Tok(ts, p)
                r == Parse("items", ts, p + 1, NoItems)
                idx == IF r.commas = 0 /\ ~r.star THEN r.items[1] ELSE PyTuple(r.items)
            IN  IF IsOutcome(x) \/ t \in {"(", "."} THEN Stop(p)
                ELSE IF t = "["
                     THEN IF r.st # "ok" THEN Parsed(r.st, Raises, r.p)
                          ELSE IF Tok(ts, r.p) # "]" THEN Stop(r.p)
                          ELSE Parse("trailers", ts, r.p + 1, Subscript(x, idx))
                ELSE Parsed("ok", x, p)
      [] rule = "power" ->
            LET a == Parse("atom", ts, p, PyNone)
                r == IF a.st = "ok" THEN Parse("trailers", ts, a.p, a.v) ELSE a
                e == Parse("factor", ts, r.p + 1, PyNone)
            IN  IF r.st = "ok" /\ Tok(ts, r.p) = "**"
                THEN IF e.st # "ok" THEN e ELSE Lift(BinOp("**", r.v, e.v), e.p)
                ELSE r
      [] rule = "factor" ->
            LET r == Parse("factor", ts, p + 1, PyNone)
            IN  IF Tok(ts, p) \in {"+", "-"}
                THEN IF r.st # "ok" THEN r ELSE Lift(UnaryOp(Tok(ts, p), r.v), r.p)
                ELSE Parse("power", ts, p, PyNone)
      [] rule = "termRest" ->
            LET r == Parse("factor", ts, p + 1, PyNone)
            IN  IF IsOutcome(x) THEN Lift(x, p)
                ELSE IF Tok(ts, p) \in {"*", "/", "//", "%"}
                THEN IF r.st # "ok" THEN r
                     ELSE Parse("termRest", ts, r.p, BinOp(Tok(ts, p), x, r.v))
                ELSE Parsed("ok", x, p)
      [] rule = "term" ->
            LET r == Parse("factor", ts, p, PyNone)
            IN  IF r.st # "ok" THEN r ELSE Parse("termRest", ts, r.p, r.v)
      [] rule = "sumRest" ->
            LET r == Parse("term", ts, p + 1, PyNone)
            IN  IF IsOutcome(x) THEN Lift(x, p)
                ELSE IF Tok(ts, p) \in {"+", "-"}
                THEN IF r.st # "ok" THEN r
                     ELSE Parse("sumRest", ts, r.p, BinOp(Tok(ts, p), x, r.v))
                ELSE Parsed("ok", x, p)
      [] rule = "sum" ->
            LET r == Parse("term", ts, p, PyNone)
            IN  IF r.st # "ok" THEN r ELSE Parse("sumRest", ts, r.p, r.v)

(***************************************************************************)
(* eval() of a configured size expression.                                 *)
(***************************************************************************)
EvalParsed(r, n) ==
    IF r.st = "unmodelled" THEN Unmodelled
    ELSE IF r.st = "raises" \/ r.p # n + 1 \/ r.star THEN Raises
    ELSE IF r.commas = 0 THEN r.items[1]
    ELSE PyTuple(r.items)

EvalTokens(tk) ==
    IF tk.st = "unmodelled" THEN Unmodelled
    ELSE IF tk.st = "raises" THEN Raises
    ELSE EvalParsed(Parse("items", tk.ts, 1, NoItems), Len(tk.ts))

Eval(s) ==
    IF \E k \in 1..Len(s) : s[k] \notin Alphabet THEN Unmodelled
    ELSE EvalTokens(Tokenize(s, 1, Scanned("ok", <<>>)))

(***************************************************************************)
(* Keras on a size argument (kernel_size, strides, pool_size) of a 2D      *)
(* layer: an int n stands for (n, n); a tuple or list of two ints is taken *)
(* as the pair; every other value makes the statement that creates and     *)
(* applies the layer raise (a sequence of another length, an element that  *)
(* is no int, a float, Ellipsis).                                          *)
(***************************************************************************)
ValidSize(v) ==
    \/ v.kind = "int"
    \/ /\ IsSeq(v)
       /\ Len(v.items) = 2
       /\ \A k \in 1..2 : v.items[k].kind = "int"

NormalizeTuple(v) ==
    IF v.kind = "int" THEN <<v.num, v.num>> ELSE <<v.items[1].num, v.items[2].num>>

AllPositive(v) == ValidSize(v) /\ \A k \in 1..2 : NormalizeTuple(v)[k] > 0

NoneNegative(v) == ValidSize(v) /\ \A k \in 1..2 : NormalizeTuple(v)[k] >= 0

\* Conv2D(filters, kernel_size, strides=...) applied to a tensor raises.
Conv2DRaises(kernel_size, strides) == ~NoneNegative(kernel_size) \/ ~AllPositive(strides)

\* A kernel size with a 0 in it: the releases of the framework that check
\* kernel sizes raise, the others build the layer.
Conv2DMayRaise(kernel_size, strides) ==
    Conv2DRaises(kernel_size, strides) \/ ~AllPositive(kernel_size)

\* MaxPool2D(pool_size) applied to a tensor raises.
MaxPool2DRaises(pool_size) == ~AllPositive(pool_size)

(***************************************************************************)
(* Output shapes of the layers with padding='same'.                        *)
(***************************************************************************)
Conv2DShape(x, filters, strides) ==
    LET s == NormalizeTuple(strides)
    IN  IF x = <<>> THEN <<>>
        ELSE <<CeilDiv(x[1], s[1]), CeilDiv(x[2], s[2]), filters>>

MaxPool2DShape(x, pool_size) ==
    LET p == NormalizeTuple(pool_size)
    IN  IF x = <<>> THEN <<>>
        ELSE <<CeilDiv(x[1], p[1]), CeilDiv(x[2], p[2]), x[3]>>

FlattenShape(x) == IF x = <<>> THEN <<>> ELSE <<x[1] * x[2] * x[3]>>

DenseShape(x, units) == IF x = <<>> THEN <<>> ELSE <<units>>


(***************************************************************************)
(* Layer objects.  Every layer is a record of the constructor arguments    *)
(* the builders set; fields a layer does not have hold the empty value.    *)
(***************************************************************************)
Zeros == [class |-> "Zeros", value |-> 0]

NoInitializer == [class |-> "None", value |-> 0]

Constant(v) == [class |-> "Constant", value |-> v]

Layer(type) ==
    [type |-> type, name |-> "", units |-> 0, kernel_size |-> <<>>,
     strides |-> <<>>, pool_size |-> <<>>, padding |-> "",
     kernel_initializer |-> "", bias_initializer |-> [class |-> "", value |-> 0],
     activity_regularizer |-> <<>>, activation |-> "", rate |-> 0,
     input_shape |-> <<>>]

Conv2D(filters, kernel_size, strides, l2_lambda, input_shape) ==
    [Layer("Conv2D") EXCEPT !.units = filters,
                            !.kernel_size = NormalizeTuple(kernel_size),
                            !.strides = NormalizeTuple(strides),
                            !.padding = "same",
                            !.kernel_initializer = "he_uniform",
                            !.bias_initializer = Zeros,
                            !.activity_regularizer = <<l2_lambda>>,
                            !.input_shape = input_shape]

BatchNormalization == Layer("BatchNormalization")

LeakyReLU == Layer("LeakyReLU")

MaxPool2D(pool_size) ==
    [Layer("MaxPool2D") EXCEPT !.pool_size = NormalizeTuple(pool_size),
                               !.strides = NormalizeTuple(pool_size),
                               !.padding = "same"]

Flatten == Layer("Flatten")

Dropout(rate) == [Layer("Dropout") EXCEPT !.rate = rate]

Dense(units, kernel_initializer, l2, activation, bias_initializer, name) ==
    [Layer("Dense") EXCEPT !.units = units,
                           !.kernel_initializer = kernel_initializer,
                           !.activity_regularizer = l2,
                           !.activation = activation,
                           !.bias_initializer = bias_initializer,
                           !.name = name]

InputLayer(shape) == [Layer("InputLayer") EXCEPT !.input_shape = shape]

Adam(lr) == [class |-> "Adam", learning_rate |-> lr]

NotCompiled == [loss |-> "", optimizer |-> [class |-> "", learning_rate |-> 0], metrics |-> <<>>]

(***************************************************************************)
(* The inputs explored: configuration mappings and call arguments.         *)
(* LR and L2_LAMBDA are in units of 1e-4, DROPOUT in percent.              *)
(***************************************************************************)
TupleText(a, b) == <<"(", DecDigits[a + 1], ",", DecDigits[b + 1], ")">>

IntText(a) == <<DecDigits[a + 1]>>

\* '(3,3)', '3', '[1,1]', '0', and two texts no convolution accepts:
\* '(3,)' is a 1-tuple and '(3,' is no expression.
KernelTexts ==
    {TupleText(3, 3), IntText(3), <<"[", "1", ",", "1", "]">>, IntText(0),
     <<"(", "3", ",", ")">>, <<"(", "3", ",">>}

SpacedTupleText(a, b) == <<"(", DecDigits[a + 1], ",", " ", DecDigits[b + 1], ")">>

StrideTexts == {TupleText(s, s) : s \in 1..MaxStride}

\* '(2,2)', '(3, 2)' and the float '2.0', which no pooling layer accepts.
PoolTexts == {TupleText(2, 2), SpacedTupleText(3, 2), <<"2", ".", "0">>}

Configs ==
    [NODES_DENSE0 : {128}, LR : {1, 3}, DROPOUT : {40}, L2_LAMBDA : {1},
     INIT_FILTERS : {8, 16}, FILTER_EXP_BASE : 1..MaxBase,
     CONV_BLOCKS : 0..MaxBlocks, KERNEL_SIZE : KernelTexts,
     MAXPOOL_SIZE : PoolTexts, STRIDES : StrideTexts]

InputShapes == {<<h, w, c>> : h \in {1, MaxDim}, w \in {1, MaxDim}, c \in {1, 3}}

OutputBiases == {None, <<0>>, <<-2>>}

NumClasses == 1..MaxClasses

Metrics == <<"accuracy">>

NoHyperparameters ==
    [nodes_dense0 |-> 0, lr |-> 0, dropout |-> 0, l2_lambda |-> 0,
     optimizer |-> [class |-> "", learning_rate |-> 0],
     init_filters |-> 0, filter_exp_base |-> 0, conv_blocks |-> 0,
     kernel_size |-> PyNone, max_pool_size |-> PyNone, strides |-> PyNone,
     output_bias |-> NoInitializer]

NoArgs ==
    [model_config |-> CHOOSE cfg \in Configs : TRUE, input_shape |-> <<>>,
     num_classes |-> 0, output_bias |-> None, metrics |-> <<>>]

Init ==
    /\ pc = "idle"
    /\ builder = ""
    /\ args = NoArgs
    /\ hp = NoHyperparameters
    /\ i = 0
    /\ layers = <<>>
    /\ X = <<>>
    /\ X_res = <<>>
    /\ built = FALSE
    /\ compiled = NotCompiled
    /\ events = <<>>

(***************************************************************************)
(* "Set hyperparameters": the reads of the configuration shared by the     *)
(* three builders, evaluated in source order.  The three size expressions  *)
(* are evaluated here and handed to Keras only when a layer is created.    *)
(***************************************************************************)
EvalSizes(cfg) ==
    [kernel_size |-> Eval(cfg.KERNEL_SIZE), max_pool_size |-> Eval(cfg.MAXPOOL_SIZE),
     strides |-> Eval(cfg.STRIDES)]

Hyperparameters(cfg, sizes) ==
    [nodes_dense0 |-> cfg.NODES_DENSE0, lr |-> cfg.LR, dropout |-> cfg.DROPOUT,
     l2_lambda |-> cfg.L2_LAMBDA, optimizer |-> Adam(cfg.LR),
     init_filters |-> cfg.INIT_FILTERS, filter_exp_base |-> cfg.FILTER_EXP_BASE,
     conv_blocks |-> cfg.CONV_BLOCKS, kernel_size |-> sizes.kernel_size,
     max_pool_size |-> sizes.max_pool_size, strides |-> sizes.strides,
     output_bias |-> NoInitializer]

\* One of the three eval calls raises, the ones before it having returned.
EvalRaises(sizes) ==
    \/ sizes.kernel_size = Raises
    \/ /\ ~IsOutcome(sizes.kernel_size)
       /\ \/ sizes.max_pool_size = Raises
          \/ /\ ~IsOutcome(sizes.max_pool_size)
             /\ sizes.strides = Raises

\* The configurations whose size expressions the model evaluates.
EvalModelled(sizes) ==
    \/ EvalRaises(sizes)
    \/ /\ ~IsOutcome(sizes.kernel_size)
       /\ ~IsOutcome(sizes.max_pool_size)
       /\ ~IsOutcome(sizes.strides)

Repeat(n, e) == [k \in 1..n |-> e]

(***************************************************************************)
(* Expressions the builders share.                                         *)
(***************************************************************************)
LoopContinuesInclusive(k, conv_blocks) == k <= conv_blocks

LoopContinues(k, conv_blocks) == k < conv_blocks

ConvFiltersLinear(init_filters, filter_exp_base, k) == init_filters * filter_exp_base * k

ConvFilters(init_filters, filter_exp_base, k) == init_filters * Pow(filter_exp_base, k)

Add(ls) ==
    /\ layers' = layers \o ls
    /\ events' = events \o Repeat(Len(ls), "add")

Emit(ev) == events' = Append(events, ev)

(***************************************************************************)
(* One pass of the loop of the Sequential builders: model.add of the       *)
(* convolution, the normalization, the activation and the pooling layer.   *)
(* The statement of the convolution or of the pooling layer raises when    *)
(* Keras rejects its size arguments; the layers added before it stay.      *)
(***************************************************************************)
SequentialBlock(conv_args, xin) ==
    LET conv == Conv2D(conv_args.filters, conv_args.kernel_size, hp.strides,
                       hp.l2_lambda, conv_args.input_shape)
    IN  \/ /\ Conv2DMayRaise(conv_args.kernel_size, hp.strides)
           /\ pc' = "failed"
           /\ UNCHANGED <<layers, events, X, built, i>>
        \/ /\ ~Conv2DRaises(conv_args.kernel_size, hp.strides)
           /\ MaxPool2DRaises(hp.max_pool_size)
           /\ Add(<<conv, BatchNormalization, LeakyReLU>>)
           /\ X' = Conv2DShape(xin, conv.units, hp.strides)
           /\ built' = TRUE
           /\ pc' = "failed"
           /\ i' = i
        \/ /\ ~Conv2DRaises(conv_args.kernel_size, hp.strides)
           /\ ~MaxPool2DRaises(hp.max_pool_size)
           /\ Add(<<conv, BatchNormalization, LeakyReLU, MaxPool2D(hp.max_pool_size)>>)
           /\ X' = MaxPool2DShape(Conv2DShape(xin, conv.units, hp.strides),
                                  hp.max_pool_size)
           /\ built' = TRUE
           /\ pc' = pc
           /\ i' = i + 1

ConvArgs(filters, kernel_size, input_shape) ==
    [filters |-> filters, kernel_size |-> kernel_size, input_shape |-> input_shape]

(***************************************************************************)
(* dcnn_binary                                                             *)
(***************************************************************************)
OutputBiasInitializerTruthy(output_bias) ==
    IF output_bias # None /\ output_bias[1] # 0 THEN Constant(output_bias[1]) ELSE NoInitializer

OutputBiasInitializer(output_bias) ==
    IF output_bias # None THEN Constant(output_bias[1]) ELSE NoInitializer

B_SetHyperparameters(cfg, bias, sizes) ==
    /\ EvalModelled(sizes)
    /\ IF EvalRaises(sizes)
       THEN pc' = "failed" /\ hp' = hp
       ELSE /\ pc' = "blocks"
            /\ hp' = [Hyperparameters(cfg, sizes) EXCEPT
                         !.output_bias = OutputBiasInitializer(bias)]

B_Setup ==
    /\ pc = "idle"
    /\ \E cfg \in Configs, shape \in InputShapes, bias \in OutputBiases :
          /\ args' = [model_config |-> cfg, input_shape |-> shape, num_classes |-> 0,
                      output_bias |-> bias, metrics |-> Metrics]
          /\ B_SetHyperparameters(cfg, bias, EvalSizes(cfg))
    /\ builder' = "dcnn_binary"
    /\ i' = 0
    /\ layers' = <<>>
    /\ UNCHANGED <<X, X_res, built, compiled, events>>

B_ConvBlock ==
    /\ pc = "blocks"
    /\ builder = "dcnn_binary"
    /\ LoopContinues(i, hp.conv_blocks)
    /\ IF i = 0
       THEN SequentialBlock(ConvArgs(hp.init_filters, hp.kernel_size, args.input_shape),
                            args.input_shape)
       ELSE SequentialBlock(ConvArgs(ConvFilters(hp.init_filters, hp.filter_exp_base, i),
                                     hp.kernel_size, None), X)
    /\ UNCHANGED <<builder, args, hp, X_res, compiled>>

BinaryHead(h) ==
    <<Flatten,
      Dropout(h.dropout),
      Dense(h.nodes_dense0, "he_uniform", <<h.l2_lambda>>, "linear", Zeros, ""),
      LeakyReLU,
      Dense(1, "glorot_uniform", None, "sigmoid", h.output_bias, "output")>>

B_Head ==
    /\ pc = "blocks"
    /\ builder = "dcnn_binary"
    /\ ~LoopContinues(i, hp.conv_blocks)
    /\ Add(BinaryHead(hp))
    /\ X' = DenseShape(DenseShape(FlattenShape(X), hp.nodes_dense0), 1)
    /\ pc' = "compile"
    /\ UNCHANGED <<builder, args, hp, i, X_res, built, compiled>>

BinaryCompile(optimizer, metrics) ==
    [loss |-> "binary_crossentropy", optimizer |-> optimizer, metrics |-> metrics]

B_Compile ==
    /\ pc = "compile"
    /\ builder = "dcnn_binary"
    /\ compiled' = BinaryCompile(hp.optimizer, args.metrics)
    /\ Emit("compile")
    /\ pc' = "summary"
    /\ UNCHANGED <<builder, args, hp, i, layers, X, X_res, built>>

(***************************************************************************)
(* summary() of a Sequential model that never received an input shape      *)
(* (no convolutional block was added) depends on the framework release:    *)
(* it raises "model has not yet been built" or prints an unbuilt summary.   *)
(***************************************************************************)
SequentialSummary ==
    \/ /\ Emit("summary")
       /\ pc' = "return"
    \/ /\ ~built
       /\ pc' = "failed"
       /\ UNCHANGED events

B_Summary ==
    /\ pc = "summary"
    /\ builder = "dcnn_binary"
    /\ SequentialSummary
    /\ UNCHANGED <<builder, args, hp, i, layers, X, X_res, built, compiled>>

B_Return ==
    /\ pc = "return"
    /\ builder = "dcnn_binary"
    /\ Emit("return")
    /\ pc' = "done"
    /\ UNCHANGED <<builder, args, hp, i, layers, X, X_res, built, compiled>>

(***************************************************************************)
(* dcnn_multiclass                                                         *)
(***************************************************************************)
M_SetHyperparameters(cfg, sizes) ==
    /\ EvalModelled(sizes)
    /\ IF EvalRaises(sizes)
       THEN pc' = "failed" /\ hp' = hp
       ELSE pc' = "blocks" /\ hp' = Hyperparameters(cfg, sizes)

M_Setup ==
    /\ pc = "idle"
    /\ \E cfg \in Configs, shape \in InputShapes, n \in NumClasses :
          /\ args' = [model_config |-> cfg, input_shape |-> shape, num_classes |-> n,
                      output_bias |-> None, metrics |-> Metrics]
          /\ M_SetHyperparameters(cfg, EvalSizes(cfg))
    /\ builder' = "dcnn_multiclass"
    /\ i' = 0
    /\ layers' = <<>>
    /\ UNCHANGED <<X, X_res, built, compiled, events>>

MulticlassKernelArgConfigured(k, filter_exp_base, kernel_size) == kernel_size

MulticlassKernelArg(k, filter_exp_base, kernel_size) ==
    IF k = 0 THEN PyInt(Pow(filter_exp_base, k)) ELSE kernel_size

M_ConvBlock ==
    /\ pc = "blocks"
    /\ builder = "dcnn_multiclass"
    /\ LoopContinues(i, hp.conv_blocks)
    /\ LET kernel == MulticlassKernelArg(i, hp.filter_exp_base, hp.kernel_size)
       IN  IF i = 0
           THEN SequentialBlock(ConvArgs(hp.init_filters, kernel, args.input_shape),
                                args.input_shape)
           ELSE SequentialBlock(ConvArgs(ConvFilters(hp.init_filters, hp.filter_exp_base, i),
                                         kernel, None), X)
    /\ UNCHANGED <<builder, args, hp, X_res, compiled>>

MulticlassHeadDropoutLast(h, num_classes) ==
    <<Flatten,
      Dropout(h.dropout),
      Dense(h.nodes_dense0, "he_uniform", <<h.l2_lambda>>, "linear", Zeros, ""),
      LeakyReLU,
      Dropout(h.dropout),
      Dense(num_classes, "glorot_uniform", None, "softmax", Zeros, "output")>>

MulticlassHead(h, num_classes) ==
    <<Flatten,
      Dropout(h.dropout),
      Dense(h.nodes_dense0, "he_uniform", <<h.l2_lambda>>, "linear", Zeros, ""),
      Dropout(h.dropout),
      LeakyReLU,
      Dense(num_classes, "glorot_uniform", None, "softmax", Zeros, "output")>>

M_Head ==
    /\ pc = "blocks"
    /\ builder = "dcnn_multiclass"
    /\ ~LoopContinues(i, hp.conv_blocks)
    /\ Add(MulticlassHead(hp, args.num_classes))
    /\ X' = DenseShape(DenseShape(FlattenShape(X), hp.nodes_dense0), args.num_classes)
    /\ pc' = "compile"
    /\ UNCHANGED <<builder, args, hp, i, X_res, built, compiled>>

CategoricalCompile(optimizer, metrics) ==
    [loss |-> "categorical_crossentropy", optimizer |-> optimizer, metrics |-> metrics]

M_CompileAfterSummary ==
    /\ pc = "compile"
    /\ builder = "dcnn_multiclass"
    /\ compiled' = CategoricalCompile(hp.optimizer, args.metrics)
    /\ events' = events \o <<"summary", "compile">>
    /\ pc' = "return"
    /\ UNCHANGED <<builder, args, hp, i, layers, X, X_res, built>>

M_Compile ==
    /\ pc = "compile"
    /\ builder = "dcnn_multiclass"
    /\ compiled' = CategoricalCompile(hp.optimizer, args.metrics)
    /\ Emit("compile")
    /\ pc' = "summary"
    /\ UNCHANGED <<builder, args, hp, i, layers, X, X_res, built>>

M_Summary ==
    /\ pc = "summary"
    /\ builder = "dcnn_multiclass"
    /\ SequentialSummary
    /\ UNCHANGED <<builder, args, hp, i, layers, X, X_res, built, compiled>>

M_Return ==
    /\ pc = "return"
    /\ builder = "dcnn_multiclass"
    /\ Emit("return")
    /\ pc' = "done"
    /\ UNCHANGED <<builder, args, hp, i, layers, X, X_res, built, compiled>>

(***************************************************************************)
(* dcnn_multiclass_resnet                                                  *)
(***************************************************************************)
R_SetHyperparameters(cfg, shape, sizes) ==
    /\ EvalModelled(sizes)
    /\ IF EvalRaises(sizes)
       THEN /\ pc' = "failed"
            /\ UNCHANGED <<hp, layers, events, X, built>>
       ELSE /\ pc' = "blocks"
            /\ hp' = Hyperparameters(cfg, sizes)
            /\ layers' = <<InputLayer(shape)>>
            /\ events' = <<"add">>
            /\ X' = shape
            /\ built' = TRUE

R_Setup ==
    /\ pc = "idle"
    /\ \E cfg \in Configs, shape \in InputShapes, n \in NumClasses :
          /\ args' = [model_config |-> cfg, input_shape |-> shape, num_classes |-> n,
                      output_bias |-> None, metrics |-> Metrics]
          /\ R_SetHyperparameters(cfg, shape, EvalSizes(cfg))
    /\ builder' = "dcnn_multiclass_resnet"
    /\ i' = 0
    /\ UNCHANGED <<X_res, compiled>>

R_BlockBranch ==
    /\ pc = "blocks"
    /\ builder = "dcnn_multiclass_resnet"
    /\ LoopContinues(i, hp.conv_blocks)
    /\ X_res' = X
    /\ LET filters == ConvFilters(hp.init_filters, hp.filter_exp_base, i)
           conv == Conv2D(filters, hp.kernel_size, hp.strides, hp.l2_lambda, None)
       IN  \/ /\ Conv2DMayRaise(hp.kernel_size, hp.strides)
              /\ pc' = "failed"
              /\ UNCHANGED <<layers, events, X>>
           \/ /\ ~Conv2DRaises(hp.kernel_size, hp.strides)
              /\ Add(<<conv, BatchNormalization, LeakyReLU, conv>>)
              /\ X' = Conv2DShape(Conv2DShape(X, filters, hp.strides), filters, hp.strides)
              /\ pc' = "concat"
    /\ UNCHANGED <<builder, args, hp, i, built, compiled>>

(***************************************************************************)
(* concatenate([a, b]) joins along the last axis and requires every other  *)
(* axis to agree; it raises otherwise.                                     *)
(***************************************************************************)
ConcatCompatible(a, b) == a[1] = b[1] /\ a[2] = b[2]

ConcatShapeFirstOnly(a, b) == <<a[1], a[2], a[3]>>

ConcatShape(a, b) == <<a[1], a[2], a[3] + b[3]>>

Concatenate == Layer("Concatenate")

R_BlockConcat ==
    /\ pc = "concat"
    /\ builder = "dcnn_multiclass_resnet"
    /\ IF ConcatCompatible(X, X_res)
       THEN /\ Add(<<Concatenate>>)
            /\ X' = ConcatShape(X, X_res)
            /\ pc' = "norm"
       ELSE /\ pc' = "failed"
            /\ UNCHANGED <<layers, events, X>>
    /\ UNCHANGED <<builder, args, hp, i, X_res, built, compiled>>

R_BlockPool ==
    /\ pc = "norm"
    /\ builder = "dcnn_multiclass_resnet"
    /\ IF MaxPool2DRaises(hp.max_pool_size)
       THEN /\ Add(<<BatchNormalization, LeakyReLU>>)
            /\ pc' = "failed"
            /\ UNCHANGED <<X, i>>
       ELSE /\ Add(<<BatchNormalization, LeakyReLU, MaxPool2D(hp.max_pool_size)>>)
            /\ X' = MaxPool2DShape(X, hp.max_pool_size)
            /\ i' = i + 1
            /\ pc' = "blocks"
    /\ UNCHANGED <<builder, args, hp, X_res, built, compiled>>

ResnetHeadOneUnit(h, num_classes) ==
    <<Flatten,
      Dropout(h.dropout),
      Dense(h.nodes_dense0, "he_uniform", <<h.l2_lambda>>, "linear", Zeros, ""),
      LeakyReLU,
      Dense(1, "glorot_uniform", None, "softmax", Zeros, "output")>>

ResnetHead(h, num_classes) ==
    <<Flatten,
      Dropout(h.dropout),
      Dense(h.nodes_dense0, "he_uniform", <<h.l2_lambda>>, "linear", Zeros, ""),
      LeakyReLU,
      Dense(num_classes, "glorot_uniform", None, "softmax", Zeros, "output")>>

R_Head ==
    /\ pc = "blocks"
    /\ builder = "dcnn_multiclass_resnet"
    /\ ~LoopContinues(i, hp.conv_blocks)
    /\ Add(ResnetHead(hp, args.num_classes))
    /\ X' = DenseShape(DenseShape(FlattenShape(X), hp.nodes_dense0), args.num_classes)
    /\ pc' = "compile"
    /\ UNCHANGED <<builder, args, hp, i, X_res, built, compiled>>

R_Compile ==
    /\ pc = "compile"
    /\ builder = "dcnn_multiclass_resnet"
    /\ compiled' = CategoricalCompile(hp.optimizer, args.metrics)
    /\ Emit("compile")
    /\ pc' = "summary"
    /\ UNCHANGED <<builder, args, hp, i, layers, X, X_res, built>>

R_Summary ==
    /\ pc = "summary"
    /\ builder = "dcnn_multiclass_resnet"
    /\ Emit("summary")
    /\ pc' = "return"
    /\ UNCHANGED <<builder, args, hp, i, layers, X, X_res, built, compiled>>

R_Return ==
    /\ pc = "return"
    /\ builder = "dcnn_multiclass_resnet"
    /\ Emit("return")
    /\ pc' = "done"
    /\ UNCHANGED <<builder, args, hp, i, layers, X, X_res, built, compiled>>

Next ==
    \/ R_Setup \/ R_BlockBranch \/ R_BlockConcat \/ R_BlockPool
    \/ R_Head \/ R_Compile \/ R_Summary \/ R_Return
    \/ B_Setup \/ B_ConvBlock \/ B_Head \/ B_Compile \/ B_Summary \/ B_Return
    \/ M_Setup \/ M_ConvBlock \/ M_Head \/ M_Compile \/ M_Summary \/ M_Return

Spec == Init /\ [][Next]_vars

(***************************************************************************)
(* Vocabulary of the properties.                                           *)
(***************************************************************************)
Cfg == args.model_config

Called == builder # ""

Convs == {k \in 1..Len(layers) : layers[k].type = "Conv2D"}

Pools == {k \in 1..Len(layers) : layers[k].type = "MaxPool2D"}

\* The block a layer belongs to: the number of pooling layers before it.
BlockOf(k) == Cardinality({j \in Pools : j < k})

ConvsPerBlock == IF builder = "dcnn_multiclass_resnet" THEN 2 ELSE 1

FiltersAt(b) == Cfg.INIT_FILTERS * Pow(Cfg.FILTER_EXP_BASE, b)

RECURSIVE FiltersBelow(_)
FiltersBelow(b) == IF b = 0 THEN 0 ELSE FiltersAt(b - 1) + FiltersBelow(b - 1)

LastLayer == layers[Len(layers)]

Types(ls) == [k \in 1..Len(ls) |-> ls[k].type]

FlattenAt == CHOOSE k \in 1..Len(layers) : layers[k].type = "Flatten"

HeadLayers == SubSeq(layers, FlattenAt, Len(layers))

RemoveAt(s, k) == SubSeq(s, 1, k - 1) \o SubSeq(s, k + 1, Len(s))

ExpectedEvents == Repeat(Len(layers), "add") \o <<"compile", "summary", "return">>

(***************************************************************************)
(* C1: in each builder every convolution of block b has                    *)
(* INIT_FILTERS * FILTER_EXP_BASE^b filters (both convolutions of a        *)
(* residual block included).                                               *)
(***************************************************************************)
C1_FilterGrowth ==
    Called => \A k \in Convs : layers[k].units = FiltersAt(BlockOf(k))

C1_Witness ==
    /\ pc = "done"
    /\ builder = "dcnn_multiclass_resnet"
    /\ Cfg.INIT_FILTERS = 16 /\ Cfg.FILTER_EXP_BASE = 2 /\ Cfg.CONV_BLOCKS = 3
    /\ Convs = {2, 5, 10, 13, 18, 21}
    /\ layers[2].units = 16 /\ layers[5].units = 16
    /\ layers[10].units = 32 /\ layers[13].units = 32
    /\ layers[18].units = 64 /\ layers[21].units = 64

(***************************************************************************)
(* C2: a returned model holds exactly CONV_BLOCKS blocks, each with its    *)
(* convolutions followed by exactly one max-pooling layer, and no          *)
(* convolution or pooling layer lies outside those blocks.                 *)
(***************************************************************************)
C2_BlockCount ==
    pc = "done" =>
        /\ Cardinality(Pools) = Cfg.CONV_BLOCKS
        /\ \A b \in 0..(Cfg.CONV_BLOCKS - 1) :
              Cardinality({k \in Convs : BlockOf(k) = b}) = ConvsPerBlock
        /\ \A k \in Convs : BlockOf(k) < Cfg.CONV_BLOCKS
        /\ \A k \in Convs \cup Pools : k < FlattenAt

C2_Witness ==
    /\ pc = "done"
    /\ builder = "dcnn_binary"
    /\ Cfg.CONV_BLOCKS = 3
    /\ Cardinality(Pools) = 3
    /\ Cardinality(Convs) = 3

(***************************************************************************)
(* C3: the last layer of a returned model is the one named 'output'; it    *)
(* has 1 sigmoid unit in dcnn_binary and num_classes softmax units in the  *)
(* two multiclass builders.                                                *)
(***************************************************************************)
C3_OutputUnits ==
    pc = "done" =>
        /\ LastLayer.name = "output"
        /\ \A k \in 1..Len(layers) : layers[k].name = "output" => k = Len(layers)
        /\ LastLayer.type = "Dense"
        /\ IF builder = "dcnn_binary"
           THEN LastLayer.units = 1 /\ LastLayer.activation = "sigmoid"
           ELSE LastLayer.units = args.num_classes /\ LastLayer.activation = "softmax"

C3_Witness ==
    /\ pc = "done"
    /\ builder = "dcnn_multiclass_resnet"
    /\ args.num_classes = 3
    /\ LastLayer.units = 3

(***************************************************************************)
(* C4: in dcnn_binary the output layer's bias initializer is the constant  *)
(* of the given seed, or is left to the framework when no seed is given;   *)
(* the initializers of all other layers are fixed by the builder.          *)
(***************************************************************************)
C4_OutputBias ==
    builder = "dcnn_binary" =>
        \A k \in 1..Len(layers) :
            IF layers[k].name = "output"
            THEN IF args.output_bias = None
                 THEN layers[k].bias_initializer = NoInitializer
                 ELSE /\ layers[k].bias_initializer.class = "Constant"
                      /\ layers[k].bias_initializer.value = args.output_bias[1]
            ELSE IF layers[k].type \in {"Conv2D", "Dense"}
                 THEN /\ layers[k].bias_initializer = Zeros
                      /\ layers[k].kernel_initializer = "he_uniform"
                 ELSE layers[k].bias_initializer.class = ""

C4_Witness ==
    /\ pc = "done"
    /\ builder = "dcnn_binary"
    /\ args.output_bias = <<-2>>
    /\ LastLayer.name = "output"
    /\ LastLayer.bias_initializer = Constant(-2)

(***************************************************************************)
(* C5: in dcnn_multiclass_resnet the tensor entering normalization and     *)
(* pooling in block i has the shortcut's channels plus                     *)
(* INIT_FILTERS * FILTER_EXP_BASE^i, so that after block i the channel     *)
(* count is the input's plus the sum of the filter counts of blocks 0..i.  *)
(***************************************************************************)
C5_ConcatChannels ==
    builder = "dcnn_multiclass_resnet" =>
        /\ pc = "norm" =>
              /\ X[3] = X_res[3] + FiltersAt(i)
              /\ X[3] = args.input_shape[3] + FiltersBelow(i + 1)
        /\ pc = "blocks" => X[3] = args.input_shape[3] + FiltersBelow(i)

C5_Witness ==
    /\ builder = "dcnn_multiclass_resnet"
    /\ pc = "norm"
    /\ i = 1
    /\ args.input_shape[3] = 3
    /\ Cfg.INIT_FILTERS = 16 /\ Cfg.FILTER_EXP_BASE = 2
    /\ X_res[3] = 19
    /\ X[3] = 51

(***************************************************************************)
(* C6: a build with CONV_BLOCKS = 0 never ends by returning a compiled     *)
(* model, in any of the three builders.                                    *)
(***************************************************************************)
C6_ZeroBlocksRejected ==
    (Called /\ Cfg.CONV_BLOCKS = 0) => pc # "done"

(***************************************************************************)
(* C7: the convolution of block 0 of dcnn_multiclass has kernel size       *)
(* FILTER_EXP_BASE^0 instead of the configured KERNEL_SIZE; every other    *)
(* convolution of the three builders has the configured KERNEL_SIZE.       *)
(***************************************************************************)
C7_FirstKernel ==
    Called =>
        \A k \in Convs :
            IF builder = "dcnn_multiclass" /\ BlockOf(k) = 0
            THEN layers[k].kernel_size = <<Pow(Cfg.FILTER_EXP_BASE, 0), Pow(Cfg.FILTER_EXP_BASE, 0)>>
            ELSE layers[k].kernel_size = NormalizeTuple(Eval(Cfg.KERNEL_SIZE))

C7_Witness ==
    /\ pc = "done"
    /\ builder = "dcnn_multiclass"
    /\ Cfg.KERNEL_SIZE = TupleText(3, 3)
    /\ Cfg.FILTER_EXP_BASE = 2
    /\ Cfg.CONV_BLOCKS = 2
    /\ layers[1].kernel_size = <<1, 1>>
    /\ layers[5].kernel_size = <<3, 3>>

(***************************************************************************)
(* C8: after the last block a returned model holds flatten, dropout,       *)
(* dense hidden (NODES_DENSE0 units), leaky activation, output; in         *)
(* dcnn_multiclass one more dropout sits between the dense hidden layer    *)
(* and the leaky activation, and the residual head is the multiclass head  *)
(* without that dropout.                                                   *)
(***************************************************************************)
C8_HeadOrder ==
    pc = "done" =>
        /\ Types(HeadLayers) =
              IF builder = "dcnn_multiclass"
              THEN <<"Flatten", "Dropout", "Dense", "Dropout", "LeakyReLU", "Dense">>
              ELSE <<"Flatten", "Dropout", "Dense", "LeakyReLU", "Dense">>
        /\ HeadLayers[3].units = Cfg.NODES_DENSE0
        /\ HeadLayers[Len(HeadLayers)].name = "output"
        /\ FlattenAt = IF Convs \cup Pools = {} THEN Len(layers) - Len(HeadLayers) + 1
                       ELSE 1 + CHOOSE k \in Pools : \A j \in Convs \cup Pools : j <= k
        /\ builder = "dcnn_multiclass_resnet" =>
              HeadLayers = RemoveAt(MulticlassHead(hp, args.num_classes), 4)

C8_Witness ==
    /\ pc = "done"
    /\ builder = "dcnn_multiclass"
    /\ Cfg.CONV_BLOCKS = 1
    /\ Types(layers) = <<"Conv2D", "BatchNormalization", "LeakyReLU", "MaxPool2D",
                         "Flatten", "Dropout", "Dense", "Dropout", "LeakyReLU", "Dense">>

(***************************************************************************)
(* C9: the events of a build are, in order, the addition of every layer,   *)
(* one compile (binary cross-entropy in dcnn_binary, categorical           *)
(* cross-entropy otherwise, Adam with the configured LR), one summary and  *)
(* the return; a returned model has seen all of them, ending in 'output'.  *)
(***************************************************************************)
C9_EventOrder ==
    /\ Len(events) <= Len(ExpectedEvents)
    /\ events = SubSeq(ExpectedEvents, 1, Len(events))
    /\ Len(events) > Len(layers) <=>
          compiled = [loss |-> IF builder = "dcnn_binary" THEN "binary_crossentropy"
                               ELSE "categorical_crossentropy",
                      optimizer |-> [class |-> "Adam", learning_rate |-> Cfg.LR],
                      metrics |-> args.metrics]
    /\ Len(events) <= Len(layers) => compiled = NotCompiled
    /\ pc = "done" => events = ExpectedEvents /\ LastLayer.name = "output"

C9_Witness ==
    /\ pc = "done"
    /\ builder = "dcnn_binary"
    /\ Cfg.LR = 3
    /\ Cfg.CONV_BLOCKS = 1
    /\ events = <<"add", "add", "add", "add", "add", "add", "add", "add", "add",
                  "compile", "summary", "return">>
    /\ compiled.loss = "binary_crossentropy"
    /\ compiled.optimizer.learning_rate = 3

(***************************************************************************)
(* C10: in dcnn_multiclass_resnet the two branches given to concatenate    *)
(* have equal height and width in every block, for every STRIDES value     *)
(* and every input size.                                                   *)
(***************************************************************************)
C10_BranchesAgree ==
    (builder = "dcnn_multiclass_resnet" /\ pc = "concat") =>
        /\ X[1] = X_res[1]
        /\ X[2] = X_res[2]

=============================================================================
